---- MODULE Spec2Model ----
(***************************************************************************)
(* SortedStringArray of g/container/garray/garray_sorted_string.go: a      *)
(* sorted array of strings behind an optional reader-writer lock.          *)
(*                                                                         *)
(* A string is a sequence of byte codes; indices are 0-based as in the Go  *)
(* code, so element k of the Go slice is arr[k + 1] here.                  *)
(***************************************************************************)
EXTENDS Integers, Sequences, FiniteSets, TLC

VARIABLES
    array,      \* array[i]: the contents of a.array of instance i
    unique,     \* unique[i]: a.unique of instance i
    safe,       \* safe[i]: a.mu.IsSafe() of instance i, fixed at construction
    mu,         \* mu[i]: the state of a.mu: writer held, number of readers
    last,       \* the last call that returned or panicked, and its result
    pc,         \* pc[p]: the statement goroutine p is at in its call
    call,       \* call[p]: the call goroutine p makes: method, receiver, arguments
    reg,        \* reg[p]: the local variables of the call of goroutine p
    committed,  \* committed[i]: array[i] when the exclusive lock was last free
    heap,       \* heap[b]: the cells of backing array b, none when b is not in use
    hdr,        \* hdr[i]: the slice a.array of instance i: backing array, offset,
                \* length and capacity
    views,      \* the slices the last Slice, SubSlice or Chunk returned to the caller
    calls       \* the number of calls made on the backing arrays

vars ==
    <<array, unique, safe, mu, last, pc, call, reg, committed, heap, hdr, views, calls>>
\* the variables of the goroutines, left alone by the calls made as a whole
procVars == <<pc, call, reg>>
\* the backing arrays and the slices into them, followed in SpecView only
memVars == <<heap, hdr, views, calls>>

----------------------------------------------------------------------------
(* Bounds *)

\* longest array the operations are let to build
MaxLen == 3
\* longest argument list of Add, and longest input of SetArray and the constructor
MaxArgs == 2
\* most calls made in a row on the backing arrays
MaxCalls == 3

\* the instances
Inst == {1, 2}
\* the instance the calls of Spec are made on
Callees == {1}
\* the goroutines
Procs == {1, 2, 3}
\* the strings "a", "ab", "b"
Val == {<<1>>, <<1, 2>>, <<2>>}

SeqsUpTo(n) == UNION {[1..k -> Val] : k \in 0..n}

----------------------------------------------------------------------------
(* Pure functions *)

RECURSIVE StrCompare(_, _)
\* strings.Compare: lexicographic order of the bytes
StrCompare(v1, v2) ==
    IF v1 = <<>> THEN (IF v2 = <<>> THEN 0 ELSE -1)
    ELSE IF v2 = <<>> THEN 1
    ELSE IF Head(v1) < Head(v2) THEN -1
    ELSE IF Head(v1) > Head(v2) THEN 1
    ELSE StrCompare(Tail(v1), Tail(v2))

\* a.compareFunc as the constructor sets it
compareFunc(v1, v2) == StrCompare(v1, v2)

\* the insertion of v into a sorted sequence, after the elements not greater
SortInsert(sorted, v) ==
    LET k == Cardinality({j \in 1..Len(sorted) : StrCompare(sorted[j], v) <= 0})
    IN  SubSeq(sorted, 1, k) \o <<v>> \o SubSeq(sorted, k + 1, Len(sorted))

RECURSIVE SortStrings(_)
\* sort.Strings: the elements in increasing order
SortStrings(s) ==
    IF s = <<>> THEN <<>>
    ELSE SortInsert(SortStrings(SubSeq(s, 1, Len(s) - 1)), s[Len(s)])

RECURSIVE binLoopWrongHalf(_, _, _, _, _, _)
\* binLoop narrowing to the wrong half
binLoopWrongHalf(arr, value, min, max, mid, cmp) ==
    IF min <= max
    THEN LET m == (min + max) \div 2
             c == compareFunc(value, arr[m + 1])
         IN  IF c < 0 THEN binLoopWrongHalf(arr, value, m + 1, max, m, c)
             ELSE IF c > 0 THEN binLoopWrongHalf(arr, value, min, m - 1, m, c)
             ELSE <<m, c>>
    ELSE <<mid, cmp>>

RECURSIVE binLoop(_, _, _, _, _, _)
\* the loop of binSearch
binLoop(arr, value, min, max, mid, cmp) ==
    IF min <= max
    THEN LET m == (min + max) \div 2
             c == compareFunc(value, arr[m + 1])
         IN  IF c < 0 THEN binLoop(arr, value, min, m - 1, m, c)
             ELSE IF c > 0 THEN binLoop(arr, value, m + 1, max, m, c)
             ELSE <<m, c>>
    ELSE <<mid, cmp>>

\* binSearch: <<index, result>>
binSearch(arr, value) ==
    IF Len(arr) = 0 THEN <<-1, -2>>
    ELSE binLoop(arr, value, 0, Len(arr) - 1, 0, -2)

\* AddOne without the step past an element that sorts before the value
AddOneNoStep(arr, uniq, value) ==
    LET r     == binSearch(arr, value)
        index == r[1]
        cmp   == r[2]
    IN  IF uniq /\ cmp = 0 THEN arr
        ELSE IF index < 0 THEN Append(arr, value)
        ELSE Append(SubSeq(arr, 1, index), value) \o SubSeq(arr, index + 1, Len(arr))

\* AddOne without the skip of a value already present
AddOneNoSkip(arr, uniq, value) ==
    LET r     == binSearch(arr, value)
        index == r[1]
        cmp   == r[2]
    IN  IF index < 0 THEN Append(arr, value)
        ELSE LET at == IF cmp > 0 THEN index + 1 ELSE index
             IN  Append(SubSeq(arr, 1, at), value) \o SubSeq(arr, at + 1, Len(arr))

\* one iteration of the loop of Add
AddOne(arr, uniq, value) ==
    LET r     == binSearch(arr, value)
        index == r[1]
        cmp   == r[2]
    IN  IF uniq /\ cmp = 0 THEN arr
        ELSE IF index < 0 THEN Append(arr, value)
        ELSE LET at   == IF cmp > 0 THEN index + 1 ELSE index
                 rear == SubSeq(arr, at + 1, Len(arr))
             IN  Append(SubSeq(arr, 1, at), value) \o rear

RECURSIVE AddAll(_, _, _)
\* the loop of Add over values
AddAll(arr, uniq, values) ==
    IF values = <<>> THEN arr
    ELSE AddAll(AddOne(arr, uniq, Head(values)), uniq, Tail(values))

\* RemoveBody keeping the removed element and dropping its successor on the
\* interior path
RemoveBodyOffByOne(arr, index) ==
    IF index = 0
    THEN IF Len(arr) = 0
         THEN [status |-> "panic", ret |-> <<>>, arr |-> arr]
         ELSE [status |-> "ok", ret |-> <<arr[1]>>, arr |-> SubSeq(arr, 2, Len(arr))]
    ELSE IF index = Len(arr) - 1
    THEN IF index < 0
         THEN [status |-> "panic", ret |-> <<>>, arr |-> arr]
         ELSE [status |-> "ok", ret |-> <<arr[index + 1]>>, arr |-> SubSeq(arr, 1, index)]
    ELSE IF index < 0 \/ index >= Len(arr)
         THEN [status |-> "panic", ret |-> <<>>, arr |-> arr]
         ELSE [status |-> "ok", ret |-> <<arr[index + 1]>>,
               arr |-> SubSeq(arr, 1, index + 1) \o SubSeq(arr, index + 3, Len(arr))]

\* the body of Remove: the value returned and the array left, or a panic
RemoveBody(arr, index) ==
    IF index = 0
    THEN IF Len(arr) = 0
         THEN [status |-> "panic", ret |-> <<>>, arr |-> arr]
         ELSE [status |-> "ok", ret |-> <<arr[1]>>, arr |-> SubSeq(arr, 2, Len(arr))]
    ELSE IF index = Len(arr) - 1
    THEN IF index < 0
         THEN [status |-> "panic", ret |-> <<>>, arr |-> arr]
         ELSE [status |-> "ok", ret |-> <<arr[index + 1]>>, arr |-> SubSeq(arr, 1, index)]
    ELSE IF index < 0 \/ index >= Len(arr)
         THEN [status |-> "panic", ret |-> <<>>, arr |-> arr]
         ELSE [status |-> "ok", ret |-> <<arr[index + 1]>>,
               arr |-> SubSeq(arr, 1, index) \o SubSeq(arr, index + 2, Len(arr))]

\* the body of PopLeft
PopLeftBody(arr) ==
    IF Len(arr) = 0
    THEN [status |-> "panic", ret |-> <<>>, arr |-> arr]
    ELSE [status |-> "ok", ret |-> <<arr[1]>>, arr |-> SubSeq(arr, 2, Len(arr))]

\* the body of PopRight
PopRightBody(arr) ==
    LET index == Len(arr) - 1
    IN  IF index < 0
        THEN [status |-> "panic", ret |-> <<>>, arr |-> arr]
        ELSE [status |-> "ok", ret |-> <<arr[index + 1]>>, arr |-> SubSeq(arr, 1, index)]

RECURSIVE UniqueLoop(_, _)
\* the loop of Unique from position i: the array left, or a panic on an index
\* out of range
UniqueLoop(arr, i) ==
    IF i = Len(arr) - 1 THEN [status |-> "ok", arr |-> arr]
    ELSE IF i + 1 >= Len(arr) THEN [status |-> "panic", arr |-> arr]
    ELSE IF compareFunc(arr[i + 1], arr[i + 2]) = 0
         THEN UniqueLoop(SubSeq(arr, 1, i + 1) \o SubSeq(arr, i + 3, Len(arr)), i)
         ELSE UniqueLoop(arr, i + 1)

\* MergeBody without the sort of the appended elements
MergeBodyNoSort(arr, other) == arr \o other

\* the array Merge leaves in the target
MergeBody(arr, other) == SortStrings(arr \o other)

\* the elements SubSlice returns
SubSliceBody(arr, isSafe, offset, size) ==
    IF offset > Len(arr) THEN <<>>
    ELSE LET sz == IF offset + size > Len(arr) THEN Len(arr) - offset ELSE size
         IN  IF isSafe THEN SubSeq(arr, offset + 1, offset + sz)
             ELSE SubSeq(arr, offset + 1, Len(arr))

\* grand.Perm(n): the orders of the indices 0..n-1 the random source can yield
Perm(n) ==
    {q \in [1..n -> 0..(n - 1)] : \A j \in 1..n, k \in 1..n : q[j] = q[k] => j = k}

RECURSIVE RandLoop(_, _, _, _, _)
\* the loop of Rand at the element i of the permutation: n[i] = a.array[v] is
\* an index out of range when n holds no element i
RandLoop(arr, n, perm, size, i) ==
    IF i >= Len(perm) THEN [status |-> "ok", ret |-> n]
    ELSE IF i >= Len(n) THEN [status |-> "panic", ret |-> <<>>]
    ELSE LET n1 == [n EXCEPT ![i + 1] = arr[perm[i + 1] + 1]]
         IN  IF i = size - 1 THEN [status |-> "ok", ret |-> n1]
             ELSE RandLoop(arr, n1, perm, size, i + 1)

\* the body of Rand: size clamped to the length, n made of size empty strings
RandBody(arr, size, perm) ==
    LET sz == IF size > Len(arr) THEN Len(arr) ELSE size
    IN  RandLoop(arr, [k \in 1..sz |-> <<>>], perm, sz, 0)

\* ChunkBody with the number of groups rounded down
ChunkBodyFloor(arr, size) ==
    IF size < 1 THEN [status |-> "panic", ret |-> <<>>]
    ELSE LET length == Len(arr)
             chunks == length \div size
         IN  [status |-> "ok",
              ret |-> [k \in 1..chunks |->
                          SubSeq(arr, (k - 1) * size + 1,
                                 IF k * size > length THEN length ELSE k * size)]]

\* the body of Chunk: the groups a.array[i*size : end], or the panic on size < 1
ChunkBody(arr, size) ==
    IF size < 1 THEN [status |-> "panic", ret |-> <<>>]
    ELSE LET length == Len(arr)
             chunks == (length + size - 1) \div size
         IN  [status |-> "ok",
              ret |-> [k \in 1..chunks |->
                          SubSeq(arr, (k - 1) * size + 1,
                                 IF k * size > length THEN length ELSE k * size)]]

----------------------------------------------------------------------------
(* The lock (g/internal/rwmutex) *)

\* a.mu.Lock() can return
CanLock(i) == ~safe[i] \/ (~mu[i].w /\ mu[i].r = 0)
\* a.mu.RLock() can return
CanRLock(i) == ~safe[i] \/ ~mu[i].w

\* the record of a call
Call(op, i, arg, ret, status) ==
    [op |-> op, inst |-> i, arg |-> arg, ret |-> ret, status |-> status]

\* a goroutine that makes no call
NoCall == [op |-> "none", inst |-> 0, arg |-> <<>>]
\* the local variables before a call sets them
NoReg == [values |-> <<>>, at |-> 0, rear |-> <<>>, ret |-> <<>>, status |-> "ok"]

----------------------------------------------------------------------------
(* Slices and backing arrays *)

\* the backing arrays
Bases == {1, 2, 3, 4}
\* a slice without storage: nil, or of capacity 0
NilSlice == [base |-> 0, off |-> 0, len |-> 0, cap |-> 0]
\* no slice returned yet
NoViews == [op |-> "none", inst |-> 0, hs |-> <<>>]
\* the backing arrays are not followed
NoMem ==
    /\ heap = [b \in Bases |-> <<>>]
    /\ hdr = [i \in Inst |-> NilSlice]
    /\ views = NoViews
    /\ calls = 0

\* the elements of slice h
Cells(hp, h) ==
    IF h.len = 0 THEN <<>> ELSE SubSeq(hp[h.base], h.off + 1, h.off + h.len)

\* h[lo : hi]: the capacity runs to the end of the backing array
Reslice(h, lo, hi) ==
    IF h.cap - lo = 0 THEN NilSlice
    ELSE [base |-> h.base, off |-> h.off + lo, len |-> hi - lo, cap |-> h.cap - lo]

\* the backing arrays in use
Live(hp) == {b \in Bases : hp[b] # <<>>}

\* make([]string, Len(cells), c) filled with cells: a new backing array, the
\* cells past the length holding the empty string
Alloc(hp, cells, c) ==
    IF c = 0 THEN [heap |-> hp, hdr |-> NilSlice]
    ELSE LET b == CHOOSE x \in Bases \ Live(hp) : \A y \in Bases \ Live(hp) : x <= y
         IN  [heap |-> [hp EXCEPT ![b] = cells \o [k \in 1..(c - Len(cells)) |-> <<>>]],
              hdr  |-> [base |-> b, off |-> 0, len |-> Len(cells), cap |-> c]]

\* the capacity append gives the new backing array: what is needed, or twice
\* the old capacity when that is more
GrowCap(old, need) == IF 2 * old > need THEN 2 * old ELSE need

\* append(h, xs...): in place when the capacity allows, in a new backing array
\* otherwise
AppendMem(hp, h, xs) ==
    LET need == h.len + Len(xs)
    IN  IF need <= h.cap
        THEN [heap |-> IF Len(xs) = 0 THEN hp
                       ELSE [hp EXCEPT ![h.base] =
                                [k \in 1..Len(@) |->
                                    IF k > h.off + h.len /\ k <= h.off + need
                                    THEN xs[k - h.off - h.len] ELSE @[k]]],
              hdr  |-> [h EXCEPT !.len = need]]
        ELSE Alloc(hp, Cells(hp, h) \o xs, GrowCap(h.cap, need))

\* the elements of h overwritten in place by cells, as many as h holds
Store(hp, h, cells) ==
    IF h.len = 0 THEN hp
    ELSE [hp EXCEPT ![h.base] =
             [k \in 1..Len(@) |->
                 IF k > h.off /\ k <= h.off + h.len THEN cells[k - h.off] ELSE @[k]]]

\* the backing arrays that the slices hs refer to, the others given back; a
\* cell within no slice of hs is read by no one before it is written again,
\* and is kept as the empty string
Collect(hp, hs) ==
    [b \in Bases |->
        IF \E h \in hs : h.base = b
        THEN [k \in 1..Len(hp[b]) |->
                 IF \E h \in hs : h.base = b /\ k > h.off /\ k <= h.off + h.len
                 THEN hp[b][k] ELSE <<>>]
        ELSE <<>>]

\* one iteration of the loop of Add, on the backing array
AddOneMem(hp, h, uniq, value) ==
    LET arr   == Cells(hp, h)
        r     == binSearch(arr, value)
        index == r[1]
        cmp   == r[2]
    IN  IF uniq /\ cmp = 0 THEN [heap |-> hp, hdr |-> h]
        ELSE IF index < 0 THEN AppendMem(hp, h, <<value>>)
        ELSE LET at   == IF cmp > 0 THEN index + 1 ELSE index
                 rear == SubSeq(arr, at + 1, Len(arr))
                 m    == AppendMem(hp, Reslice(h, 0, at), <<value>>)
             IN  AppendMem(m.heap, m.hdr, rear)

\* the body of Remove, on the backing array
RemoveBodyMem(hp, h, index) ==
    LET arr == Cells(hp, h)
        bad == [status |-> "panic", heap |-> hp, hdr |-> h]
    IN  IF index = 0
        THEN IF h.len = 0 THEN bad
             ELSE [status |-> "ok", heap |-> hp, hdr |-> Reslice(h, 1, h.len)]
        ELSE IF index = h.len - 1
        THEN IF index < 0 THEN bad
             ELSE [status |-> "ok", heap |-> hp, hdr |-> Reslice(h, 0, index)]
        ELSE IF index < 0 \/ index >= h.len THEN bad
             ELSE LET m == AppendMem(hp, Reslice(h, 0, index),
                                     SubSeq(arr, index + 2, Len(arr)))
                  IN  [status |-> "ok", heap |-> m.heap, hdr |-> m.hdr]

RECURSIVE UniqueLoopMem(_, _, _)
\* the loop of Unique from position i, on the backing array
UniqueLoopMem(hp, h, i) ==
    LET arr == Cells(hp, h)
    IN  IF i = h.len - 1 THEN [status |-> "ok", heap |-> hp, hdr |-> h]
        ELSE IF i + 1 >= h.len THEN [status |-> "panic", heap |-> hp, hdr |-> h]
        ELSE IF compareFunc(arr[i + 1], arr[i + 2]) = 0
             THEN LET m == AppendMem(hp, Reslice(h, 0, i + 1),
                                     SubSeq(arr, i + 3, Len(arr)))
                  IN  UniqueLoopMem(m.heap, m.hdr, i)
             ELSE UniqueLoopMem(hp, h, i + 1)

\* the body of Merge, on the backing arrays: the append, then the sort in place
MergeBodyMem(hp, h, other) ==
    LET m == AppendMem(hp, h, Cells(hp, other))
    IN  [heap |-> Store(m.heap, m.hdr, SortStrings(Cells(m.heap, m.hdr))), hdr |-> m.hdr]

\* SliceBodyMem returning a.array itself in Safe mode too
SliceBodyMemNoCopy(hp, h, isSafe) == [heap |-> hp, hdr |-> h]

\* the slice Slice returns: a copy in Safe mode, a.array itself in Unsafe mode
SliceBodyMem(hp, h, isSafe) ==
    IF isSafe THEN Alloc(hp, Cells(hp, h), h.len) ELSE [heap |-> hp, hdr |-> h]

\* the slice SubSlice returns: a copy of size elements in Safe mode,
\* a.array[offset:] in Unsafe mode
SubSliceBodyMem(hp, h, isSafe, offset, size) ==
    IF offset > h.len THEN [heap |-> hp, hdr |-> NilSlice]
    ELSE LET sz == IF offset + size > h.len THEN h.len - offset ELSE size
         IN  IF isSafe
             THEN Alloc(hp, SubSeq(Cells(hp, h), offset + 1, offset + sz), sz)
             ELSE [heap |-> hp, hdr |-> Reslice(h, offset, h.len)]

\* the groups Chunk returns: a.array[i*size : end]
ChunkBodyMem(h, size) ==
    LET length == h.len
        chunks == (length + size - 1) \div size
    IN  [k \in 1..chunks |->
            Reslice(h, (k - 1) * size, IF k * size > length THEN length ELSE k * size)]

\* CloneUnsafeArg passing a.mu.IsSafe() as it is
CloneUnsafeArgDirect(isSafe) == isSafe

\* the argument unsafe that Clone passes to NewSortedStringArrayFrom
CloneUnsafeArg(isSafe) == ~isSafe

\* rwmutex.New(unsafe...): whether the lock made is a Safe one
RWMutexNewIsSafe(unsafe) == ~unsafe

\* CloneBodyMem handing a.array itself to the new instance
CloneBodyMemNoCopy(hp, h) == [heap |-> hp, hdr |-> h]

\* the array of the instance Clone returns: a copy, sorted in place
CloneBodyMem(hp, h) ==
    LET m == Alloc(hp, Cells(hp, h), h.len)
    IN  [heap |-> Store(m.heap, m.hdr, SortStrings(Cells(m.heap, m.hdr))), hdr |-> m.hdr]

----------------------------------------------------------------------------
(* Construction *)

\* the state NewSortedStringArrayFrom(s, unsafe) builds
NewSortedStringArrayFrom(s) == SortStrings(s)

\* Instance 1 is built by NewSortedStringArrayFrom, or by NewSortedStringArray
\* when the input is empty; instance 2 by NewSortedStringArray
Init ==
    /\ \E s \in SeqsUpTo(MaxArgs) :
           array = [i \in Inst |-> IF i \in Callees THEN NewSortedStringArrayFrom(s)
                                   ELSE <<>>]
    /\ unique = [i \in Inst |-> FALSE]
    /\ safe \in [Inst -> BOOLEAN]
    /\ mu = [i \in Inst |-> [w |-> FALSE, r |-> 0]]
    /\ last = Call("New", 0, <<>>, <<>>, "ok")
    /\ pc = [p \in Procs |-> "done"]
    /\ call = [p \in Procs |-> NoCall]
    /\ reg = [p \in Procs |-> NoReg]
    /\ committed = array
    /\ NoMem

----------------------------------------------------------------------------
(* Operations, each a whole call *)

\* No call has panicked: the package recovers no panic, and a panic ends the
\* sequence of calls
Running == last.status = "ok"

SetArray(i, s) ==
    /\ Running
    /\ CanLock(i)
    /\ array' = [array EXCEPT ![i] = SortStrings(s)]
    /\ last' = Call("SetArray", i, <<s>>, <<>>, "ok")
    /\ UNCHANGED <<unique, safe, mu>>
    /\ committed' = array'
    /\ UNCHANGED <<procVars, memVars>>

Sort(i) ==
    /\ Running
    /\ CanLock(i)
    /\ array' = [array EXCEPT ![i] = SortStrings(array[i])]
    /\ last' = Call("Sort", i, <<>>, <<>>, "ok")
    /\ UNCHANGED <<unique, safe, mu>>
    /\ committed' = array'
    /\ UNCHANGED <<procVars, memVars>>

Add(i, values) ==
    /\ Running
    /\ Len(values) = 0 \/ CanLock(i)
    /\ Len(array[i]) + Len(values) <= MaxLen
    /\ array' = [array EXCEPT ![i] = AddAll(array[i], unique[i], values)]
    /\ last' = Call("Add", i, <<values>>, <<>>, "ok")
    /\ UNCHANGED <<unique, safe, mu>>
    /\ committed' = array'
    /\ UNCHANGED <<procVars, memVars>>

Remove(i, index) ==
    /\ Running
    /\ CanLock(i)
    /\ LET r == RemoveBody(array[i], index)
       IN  /\ array' = [array EXCEPT ![i] = r.arr]
           /\ last' = Call("Remove", i, <<index>>, r.ret, r.status)
    /\ UNCHANGED <<unique, safe, mu>>
    /\ committed' = array'
    /\ UNCHANGED <<procVars, memVars>>

PopLeft(i) ==
    /\ Running
    /\ CanLock(i)
    /\ LET r == PopLeftBody(array[i])
       IN  /\ array' = [array EXCEPT ![i] = r.arr]
           /\ last' = Call("PopLeft", i, <<>>, r.ret, r.status)
    /\ UNCHANGED <<unique, safe, mu>>
    /\ committed' = array'
    /\ UNCHANGED <<procVars, memVars>>

PopRight(i) ==
    /\ Running
    /\ CanLock(i)
    /\ LET r == PopRightBody(array[i])
       IN  /\ array' = [array EXCEPT ![i] = r.arr]
           /\ last' = Call("PopRight", i, <<>>, r.ret, r.status)
    /\ UNCHANGED <<unique, safe, mu>>
    /\ committed' = array'
    /\ UNCHANGED <<procVars, memVars>>

\* Search: the length is read before the shared lock is taken
Search(i, value) ==
    /\ Running
    /\ Len(array[i]) = 0 \/ CanRLock(i)
    /\ last' = Call("Search", i, <<value>>, binSearch(array[i], value), "ok")
    /\ UNCHANGED <<array, unique, safe, mu>>
    /\ committed' = array'
    /\ UNCHANGED <<procVars, memVars>>

Contains(i, value) ==
    /\ Running
    /\ Len(array[i]) = 0 \/ CanRLock(i)
    /\ last' = Call("Contains", i, <<value>>, <<binSearch(array[i], value)[2] = 0>>, "ok")
    /\ UNCHANGED <<array, unique, safe, mu>>
    /\ committed' = array'
    /\ UNCHANGED <<procVars, memVars>>

\* Unique: a panic leaves the exclusive lock held, there being no deferred Unlock
Unique(i) ==
    /\ Running
    /\ CanLock(i)
    /\ LET r == UniqueLoop(array[i], 0)
       IN  /\ array' = [array EXCEPT ![i] = r.arr]
           /\ mu' = IF r.status = "panic" /\ safe[i]
                    THEN [mu EXCEPT ![i].w = TRUE] ELSE mu
           /\ last' = Call("Unique", i, <<>>, <<>>, r.status)
    /\ UNCHANGED <<unique, safe>>
    /\ committed' = array'
    /\ UNCHANGED <<procVars, memVars>>

\* SetUnique: the flag is set before, and outside, the Unique pass
SetUnique(i, u) ==
    /\ Running
    /\ (u /\ unique[i] # u) => CanLock(i)
    /\ unique' = [unique EXCEPT ![i] = u]
    /\ IF u /\ unique[i] # u
       THEN LET r == UniqueLoop(array[i], 0)
            IN  /\ array' = [array EXCEPT ![i] = r.arr]
                /\ mu' = IF r.status = "panic" /\ safe[i]
                         THEN [mu EXCEPT ![i].w = TRUE] ELSE mu
                /\ last' = Call("SetUnique", i, <<u>>, <<>>, r.status)
       ELSE /\ last' = Call("SetUnique", i, <<u>>, <<>>, "ok")
            /\ UNCHANGED <<array, mu>>
    /\ UNCHANGED safe
    /\ committed' = array'
    /\ UNCHANGED <<procVars, memVars>>

Clear(i) ==
    /\ Running
    /\ CanLock(i)
    /\ array' = [array EXCEPT ![i] = IF Len(array[i]) > 0 THEN <<>> ELSE array[i]]
    /\ last' = Call("Clear", i, <<>>, <<>>, "ok")
    /\ UNCHANGED <<unique, safe, mu>>
    /\ committed' = array'
    /\ UNCHANGED <<procVars, memVars>>

\* Merge of instance j into instance i
Merge(i, j) ==
    /\ Running
    /\ CanLock(i)
    /\ i # j => CanRLock(j)
    /\ Len(array[i]) + Len(array[j]) <= MaxLen
    /\ array' = [array EXCEPT ![i] = MergeBody(array[i], array[j])]
    /\ last' = Call("Merge", i, <<j>>, <<>>, "ok")
    /\ UNCHANGED <<unique, safe, mu>>
    /\ committed' = array'
    /\ UNCHANGED <<procVars, memVars>>

\* Merge of a new instance NewSortedStringArrayFrom(s) into instance i
MergeNew(i, s) ==
    /\ Running
    /\ CanLock(i)
    /\ Len(array[i]) + Len(s) <= MaxLen
    /\ array' = [array EXCEPT ![i] = MergeBody(array[i], NewSortedStringArrayFrom(s))]
    /\ last' = Call("MergeNew", i, <<s>>, <<>>, "ok")
    /\ UNCHANGED <<unique, safe, mu>>
    /\ committed' = array'
    /\ UNCHANGED <<procVars, memVars>>

SubSlice(i, offset, size) ==
    /\ Running
    /\ CanRLock(i)
    /\ last' = Call("SubSlice", i, <<offset, size>>,
                    SubSliceBody(array[i], safe[i], offset, size), "ok")
    /\ UNCHANGED <<array, unique, safe, mu>>
    /\ committed' = array'
    /\ UNCHANGED <<procVars, memVars>>

\* Rand: perm is what grand.Perm(len(a.array)) yields
Rand(i, size) ==
    /\ Running
    /\ CanRLock(i)
    /\ \E perm \in Perm(Len(array[i])) :
           LET r == RandBody(array[i], size, perm)
           IN  last' = Call("Rand", i, <<size, perm>>, r.ret, r.status)
    /\ UNCHANGED <<array, unique, safe, mu>>
    /\ committed' = array'
    /\ UNCHANGED <<procVars, memVars>>

\* Chunk: the panic on size < 1 comes before the lock is taken
Chunk(i, size) ==
    /\ Running
    /\ size < 1 \/ CanRLock(i)
    /\ LET r == ChunkBody(array[i], size)
       IN  last' = Call("Chunk", i, <<size>>, r.ret, r.status)
    /\ UNCHANGED <<array, unique, safe, mu>>
    /\ committed' = array'
    /\ UNCHANGED <<procVars, memVars>>

Next ==
    \/ \E i \in Callees, s \in SeqsUpTo(MaxArgs) : SetArray(i, s)
    \/ \E i \in Callees : Sort(i)
    \/ \E i \in Callees, values \in SeqsUpTo(MaxArgs) : Add(i, values)
    \/ \E i \in Callees, index \in -1..MaxLen : Remove(i, index)
    \/ \E i \in Callees : PopLeft(i)
    \/ \E i \in Callees : PopRight(i)
    \/ \E i \in Callees, value \in Val : Search(i, value)
    \/ \E i \in Callees, value \in Val : Contains(i, value)
    \/ \E i \in Callees : Unique(i)
    \/ \E i \in Callees, u \in BOOLEAN : SetUnique(i, u)
    \/ \E i \in Callees : Clear(i)
    \/ \E i \in Callees : Merge(i, i)
    \/ \E i \in Callees, s \in SeqsUpTo(MaxArgs) : MergeNew(i, s)
    \/ \E i \in Callees, offset \in 0..(MaxLen + 1), size \in 0..MaxLen :
           SubSlice(i, offset, size)

Spec == Init /\ [][Next]_vars

----------------------------------------------------------------------------
(* Two instances merged into each other *)

\* Both instances are built by NewSortedStringArrayFrom
InitMerge ==
    /\ array \in [Inst -> {NewSortedStringArrayFrom(s) : s \in SeqsUpTo(MaxArgs)}]
    /\ unique = [i \in Inst |-> FALSE]
    /\ safe \in [Inst -> BOOLEAN]
    /\ mu = [i \in Inst |-> [w |-> FALSE, r |-> 0]]
    /\ last = Call("New", 0, <<>>, <<>>, "ok")
    /\ pc = [p \in Procs |-> "done"]
    /\ call = [p \in Procs |-> NoCall]
    /\ reg = [p \in Procs |-> NoReg]
    /\ committed = array
    /\ NoMem

NextMerge ==
    \/ \E i \in Inst, j \in Inst : Merge(i, j)
    \/ \E i \in Inst, v \in Val : Add(i, <<v>>)
    \/ \E i \in Inst : PopRight(i)

SpecMerge == InitMerge /\ [][NextMerge]_vars

----------------------------------------------------------------------------
(* Reads of an instance that Add and PopRight grow and shrink *)

NextRead ==
    \/ \E i \in Callees, v \in Val : Add(i, <<v>>)
    \/ \E i \in Callees : PopRight(i)
    \/ \E i \in Callees, size \in 0..(MaxLen + 1) : Rand(i, size)
    \/ \E i \in Callees, size \in -1..(MaxLen + 1) : Chunk(i, size)

SpecRead == Init /\ [][NextRead]_vars

----------------------------------------------------------------------------
(* Calls on the backing arrays: what the returned slices share with a.array *)

\* the slices in the sequence hs
Range(hs) == {hs[k] : k \in 1..Len(hs)}

\* the state a call leaves: backing arrays hp, slices hd of the instances,
\* returned slices vs
MemStep(hp, hd, vs) ==
    /\ calls < MaxCalls
    /\ calls' = calls + 1
    /\ heap' = Collect(hp, {hd[i] : i \in Inst} \cup Range(vs.hs))
    /\ hdr' = hd
    /\ views' = vs
    /\ array' = [i \in Inst |-> Cells(hp, hd[i])]
    /\ committed' = array'
    /\ UNCHANGED procVars

\* Add of one value
AddMem(i, value) ==
    /\ Running
    /\ CanLock(i)
    /\ Len(array[i]) < MaxLen
    /\ LET m == AddOneMem(heap, hdr[i], unique[i], value)
       IN  MemStep(m.heap, [hdr EXCEPT ![i] = m.hdr], views)
    /\ last' = Call("Add", i, <<>>, <<>>, "ok")
    /\ UNCHANGED <<unique, safe, mu>>

RemoveMem(i, index) ==
    /\ Running
    /\ CanLock(i)
    /\ LET r == RemoveBodyMem(heap, hdr[i], index)
       IN  /\ MemStep(r.heap, [hdr EXCEPT ![i] = r.hdr], views)
           /\ last' = Call("Remove", i, <<>>, <<>>, r.status)
    /\ UNCHANGED <<unique, safe, mu>>

SortMem(i) ==
    /\ Running
    /\ CanLock(i)
    /\ MemStep(Store(heap, hdr[i], SortStrings(array[i])), hdr, views)
    /\ last' = Call("Sort", i, <<>>, <<>>, "ok")
    /\ UNCHANGED <<unique, safe, mu>>

UniqueMem(i) ==
    /\ Running
    /\ CanLock(i)
    /\ LET r == UniqueLoopMem(heap, hdr[i], 0)
       IN  /\ MemStep(r.heap, [hdr EXCEPT ![i] = r.hdr], views)
           /\ mu' = IF r.status = "panic" /\ safe[i]
                    THEN [mu EXCEPT ![i].w = TRUE] ELSE mu
           /\ last' = Call("Unique", i, <<>>, <<>>, r.status)
    /\ UNCHANGED <<unique, safe>>

SetUniqueMem(i, u) ==
    /\ Running
    /\ (u /\ unique[i] # u) => CanLock(i)
    /\ unique' = [unique EXCEPT ![i] = u]
    /\ IF u /\ unique[i] # u
       THEN LET r == UniqueLoopMem(heap, hdr[i], 0)
            IN  /\ MemStep(r.heap, [hdr EXCEPT ![i] = r.hdr], views)
                /\ mu' = IF r.status = "panic" /\ safe[i]
                         THEN [mu EXCEPT ![i].w = TRUE] ELSE mu
                /\ last' = Call("SetUnique", i, <<>>, <<>>, r.status)
       ELSE /\ MemStep(heap, hdr, views)
            /\ last' = Call("SetUnique", i, <<>>, <<>>, "ok")
            /\ UNCHANGED mu
    /\ UNCHANGED safe

MergeMem(i, j) ==
    /\ Running
    /\ CanLock(i)
    /\ i # j => CanRLock(j)
    /\ Len(array[i]) + Len(array[j]) <= MaxLen
    /\ LET m == MergeBodyMem(heap, hdr[i], hdr[j])
       IN  MemStep(m.heap, [hdr EXCEPT ![i] = m.hdr], views)
    /\ last' = Call("Merge", i, <<>>, <<>>, "ok")
    /\ UNCHANGED <<unique, safe, mu>>

ClearMem(i) ==
    /\ Running
    /\ CanLock(i)
    /\ MemStep(heap, [hdr EXCEPT ![i] = IF hdr[i].len > 0 THEN NilSlice ELSE @], views)
    /\ last' = Call("Clear", i, <<>>, <<>>, "ok")
    /\ UNCHANGED <<unique, safe, mu>>

SliceMem(i) ==
    /\ Running
    /\ CanRLock(i)
    /\ LET m == SliceBodyMem(heap, hdr[i], safe[i])
       IN  MemStep(m.heap, hdr, [op |-> "Slice", inst |-> i, hs |-> <<m.hdr>>])
    /\ last' = Call("Slice", i, <<>>, <<>>, "ok")
    /\ UNCHANGED <<unique, safe, mu>>

SubSliceMem(i, offset, size) ==
    /\ Running
    /\ CanRLock(i)
    /\ LET m == SubSliceBodyMem(heap, hdr[i], safe[i], offset, size)
       IN  MemStep(m.heap, hdr, [op |-> "SubSlice", inst |-> i, hs |-> <<m.hdr>>])
    /\ last' = Call("SubSlice", i, <<>>, <<>>, "ok")
    /\ UNCHANGED <<unique, safe, mu>>

ChunkMem(i, size) ==
    /\ Running
    /\ size < 1 \/ CanRLock(i)
    /\ IF size < 1
       THEN /\ MemStep(heap, hdr, views)
            /\ last' = Call("Chunk", i, <<>>, <<>>, "panic")
       ELSE /\ MemStep(heap, hdr, [op |-> "Chunk", inst |-> i,
                                   hs |-> ChunkBodyMem(hdr[i], size)])
            /\ last' = Call("Chunk", i, <<>>, <<>>, "ok")
    /\ UNCHANGED <<unique, safe, mu>>

\* Clone of instance i: j names the instance returned, made by
\* NewSortedStringArrayFrom
CloneMem(i, j) ==
    /\ Running
    /\ i # j
    /\ CanRLock(i)
    /\ LET m == CloneBodyMem(Collect(heap, {hdr[i]} \cup Range(views.hs)), hdr[i])
       IN  MemStep(m.heap, [hdr EXCEPT ![j] = m.hdr], views)
    /\ unique' = [unique EXCEPT ![j] = FALSE]
    /\ safe' = [safe EXCEPT ![j] = RWMutexNewIsSafe(CloneUnsafeArg(safe[i]))]
    /\ mu' = [mu EXCEPT ![j] = [w |-> FALSE, r |-> 0]]
    /\ last' = Call("Clone", i, <<j>>, <<>>, "ok")

\* the caller assigns value to element index of the k-th slice it was returned
WriteView(k, index, value) ==
    /\ Running
    /\ k \in 1..Len(views.hs)
    /\ index < views.hs[k].len
    /\ LET h == views.hs[k]
       IN  MemStep([heap EXCEPT ![h.base][h.off + index + 1] = value], hdr, views)
    /\ last' = Call("Write", 0, <<>>, <<>>, "ok")
    /\ UNCHANGED <<unique, safe, mu>>

\* the strings "a", "b" that the calls on the backing arrays put in
ValView == {<<1>>, <<2>>}

\* Instance 1 is built by NewSortedStringArrayFrom on a slice of its own,
\* instance 2 by NewSortedStringArray
InitView ==
    /\ \E s \in UNION {[1..k -> ValView] : k \in 0..MaxArgs} :
           LET m == Alloc([b \in Bases |-> <<>>], NewSortedStringArrayFrom(s), Len(s))
           IN  /\ heap = m.heap
               /\ hdr = [i \in Inst |-> IF i \in Callees THEN m.hdr ELSE NilSlice]
    /\ views = NoViews
    /\ calls = 0
    /\ array = [i \in Inst |-> Cells(heap, hdr[i])]
    /\ unique = [i \in Inst |-> FALSE]
    /\ safe \in [Inst -> BOOLEAN]
    /\ mu = [i \in Inst |-> [w |-> FALSE, r |-> 0]]
    /\ last = Call("New", 0, <<>>, <<>>, "ok")
    /\ pc = [p \in Procs |-> "done"]
    /\ call = [p \in Procs |-> NoCall]
    /\ reg = [p \in Procs |-> NoReg]
    /\ committed = array

\* Calls on instance 1, and the writes of the caller to the slices returned
NextView ==
    \/ \E i \in Callees, value \in ValView : AddMem(i, value)
    \/ \E i \in Callees, index \in 0..(MaxLen - 1) : RemoveMem(i, index)
    \/ \E i \in Callees : SortMem(i)
    \/ \E i \in Callees : UniqueMem(i)
    \/ \E i \in Callees : MergeMem(i, i)
    \/ \E i \in Callees : ClearMem(i)
    \/ \E i \in Callees : SliceMem(i)
    \/ \E i \in Callees, offset \in 0..1, size \in {1, MaxLen} : SubSliceMem(i, offset, size)
    \/ \E i \in Callees, size \in 0..2 : ChunkMem(i, size)
    \/ \E k \in 1..2, index \in 0..1, value \in ValView : WriteView(k, index, value)

SpecView == InitView /\ [][NextView]_vars

\* Calls on instance 1 and on its clone, which instance 2 names once Clone
\* has returned it
NextClone ==
    \/ \E i \in Inst, value \in ValView : AddMem(i, value)
    \/ \E i \in Inst, index \in 0..(MaxLen - 1) : RemoveMem(i, index)
    \/ \E i \in Inst : SortMem(i)
    \/ \E i \in Inst : UniqueMem(i)
    \/ \E i \in Callees, u \in BOOLEAN : SetUniqueMem(i, u)
    \/ \E i \in Inst, j \in Inst : MergeMem(i, j)
    \/ \E i \in Inst : ClearMem(i)
    \/ \E i \in Callees, j \in Inst : CloneMem(i, j)

SpecClone == InitView /\ [][NextClone]_vars

----------------------------------------------------------------------------
(* Calls made by goroutines, one statement at a time *)

\* the receiver of the call of goroutine p
Recv(p) == call[p].inst

\* the state of the locks after a.mu.Lock(), Unlock(), RLock(), RUnlock() on
\* instance i: nothing changes in Unsafe mode
LockMu(i) == IF safe[i] THEN [mu EXCEPT ![i].w = TRUE] ELSE mu
UnlockMu(i) == IF safe[i] THEN [mu EXCEPT ![i].w = FALSE] ELSE mu
RLockMu(i) == IF safe[i] THEN [mu EXCEPT ![i].r = @ + 1] ELSE mu
RUnlockMu(i) == IF safe[i] THEN [mu EXCEPT ![i].r = @ - 1] ELSE mu

\* where a call ends: a return, or a panic that unwinds the goroutine
End(p) == IF reg[p].status = "ok" THEN "done" ELSE "panicked"

\* a.mu.Lock() at statement from
StepLock(p, from, to) ==
    /\ pc[p] = from
    /\ CanLock(Recv(p))
    /\ mu' = LockMu(Recv(p))
    /\ pc' = [pc EXCEPT ![p] = to]
    /\ UNCHANGED <<array, unique, safe, last, call, memVars, reg, committed>>

\* a.mu.Unlock(), deferred or last, and the return
StepUnlock(p, from) ==
    /\ pc[p] = from
    /\ mu' = UnlockMu(Recv(p))
    /\ committed' = [committed EXCEPT ![Recv(p)] = array[Recv(p)]]
    /\ pc' = [pc EXCEPT ![p] = End(p)]
    /\ UNCHANGED <<array, unique, safe, last, call, memVars, reg>>

\* a.mu.RLock() at statement from
StepRLock(p, from, to) ==
    /\ pc[p] = from
    /\ CanRLock(Recv(p))
    /\ mu' = RLockMu(Recv(p))
    /\ pc' = [pc EXCEPT ![p] = to]
    /\ UNCHANGED <<array, unique, safe, last, call, memVars, reg, committed>>

\* a.mu.RUnlock(), deferred or last, and the return
StepRUnlock(p, from) ==
    /\ pc[p] = from
    /\ mu' = RUnlockMu(Recv(p))
    /\ pc' = [pc EXCEPT ![p] = End(p)]
    /\ UNCHANGED <<array, unique, safe, last, call, memVars, reg, committed>>

\* a.array[0 : n]; n is within the length while the exclusive lock is held
Prefix(arr, n) == SubSeq(arr, 1, IF n < Len(arr) THEN n ELSE Len(arr))

(* Add *)

\* Add: the test of len(values)
AddEnter(p) ==
    /\ pc[p] = "Add"
    /\ pc' = [pc EXCEPT ![p] = IF Len(call[p].arg[1]) = 0 THEN "done" ELSE "AddLock"]
    /\ reg' = [reg EXCEPT ![p].values = call[p].arg[1]]
    /\ UNCHANGED <<array, unique, safe, mu, last, call, memVars, committed>>

\* AddLock that goes on without the lock
AddLockSkipped(p) ==
    /\ pc[p] = "AddLock"
    /\ pc' = [pc EXCEPT ![p] = "AddLoop"]
    /\ UNCHANGED <<array, unique, safe, mu, last, call, memVars, reg, committed>>

\* Add: a.mu.Lock()
AddLock(p) ==
    /\ pc[p] = "AddLock"
    /\ StepLock(p, "AddLock", "AddLoop")

\* Add: the next value of the loop: the search, the skip of a present value,
\* the append to an empty array, the copy of the rear
AddLoop(p) ==
    /\ pc[p] = "AddLoop"
    /\ LET i      == Recv(p)
           values == reg[p].values
       IN  IF values = <<>>
           THEN /\ pc' = [pc EXCEPT ![p] = "AddUnlock"]
                /\ UNCHANGED <<array, reg>>
           ELSE LET r     == binSearch(array[i], Head(values))
                    index == r[1]
                    cmp   == r[2]
                    at    == IF cmp > 0 THEN index + 1 ELSE index
                IN  IF unique[i] /\ cmp = 0
                    THEN /\ reg' = [reg EXCEPT ![p].values = Tail(values)]
                         /\ UNCHANGED <<array, pc>>
                    ELSE IF index < 0
                    THEN /\ array' = [array EXCEPT ![i] = Append(@, Head(values))]
                         /\ reg' = [reg EXCEPT ![p].values = Tail(values)]
                         /\ UNCHANGED pc
                    ELSE /\ reg' = [reg EXCEPT ![p].at = at,
                                               ![p].rear = SubSeq(array[i], at + 1, Len(array[i]))]
                         /\ pc' = [pc EXCEPT ![p] = "AddHead"]
                         /\ UNCHANGED array
    /\ UNCHANGED <<unique, safe, mu, last, call, memVars, committed>>

\* Add: a.array = append(a.array[0 : index], value)
AddHead(p) ==
    /\ pc[p] = "AddHead"
    /\ array' = [array EXCEPT ![Recv(p)] =
                     Append(Prefix(@, reg[p].at), Head(reg[p].values))]
    /\ pc' = [pc EXCEPT ![p] = "AddRear"]
    /\ UNCHANGED <<unique, safe, mu, last, call, memVars, reg, committed>>

\* Add: a.array = append(a.array, rear...)
AddRear(p) ==
    /\ pc[p] = "AddRear"
    /\ array' = [array EXCEPT ![Recv(p)] = @ \o reg[p].rear]
    /\ reg' = [reg EXCEPT ![p].values = Tail(@)]
    /\ pc' = [pc EXCEPT ![p] = "AddLoop"]
    /\ UNCHANGED <<unique, safe, mu, last, call, memVars, committed>>

\* Add: the deferred a.mu.Unlock()
AddUnlock(p) ==
    /\ pc[p] = "AddUnlock"
    /\ StepUnlock(p, "AddUnlock")

(* Remove *)

\* Remove: a.mu.Lock()
RemoveLock(p) ==
    /\ pc[p] = "RemoveLock"
    /\ StepLock(p, "RemoveLock", "RemoveBody")

\* Remove: the front and back paths, and on the interior path the shift of
\* the elements after index within the backing array
RemoveShift(p) ==
    /\ pc[p] = "RemoveBody"
    /\ LET i     == Recv(p)
           arr   == array[i]
           index == call[p].arg[1]
           r     == RemoveBody(arr, index)
       IN  IF r.status = "ok" /\ index # 0 /\ index # Len(arr) - 1
           THEN /\ array' = [array EXCEPT ![i] = r.arr \o <<arr[Len(arr)]>>]
                /\ reg' = [reg EXCEPT ![p].ret = r.ret]
                /\ pc' = [pc EXCEPT ![p] = "RemoveSet"]
           ELSE /\ array' = [array EXCEPT ![i] = r.arr]
                /\ reg' = [reg EXCEPT ![p].ret = r.ret, ![p].status = r.status]
                /\ pc' = [pc EXCEPT ![p] = "RemoveUnlock"]
    /\ UNCHANGED <<unique, safe, mu, last, call, memVars, committed>>

\* Remove: on the interior path, the assignment of the shortened slice
RemoveSet(p) ==
    /\ pc[p] = "RemoveSet"
    /\ array' = [array EXCEPT ![Recv(p)] = SubSeq(@, 1, Len(@) - 1)]
    /\ pc' = [pc EXCEPT ![p] = "RemoveUnlock"]
    /\ UNCHANGED <<unique, safe, mu, last, call, memVars, reg, committed>>

\* Remove: the deferred a.mu.Unlock()
RemoveUnlock(p) ==
    /\ pc[p] = "RemoveUnlock"
    /\ StepUnlock(p, "RemoveUnlock")

(* Merge *)

\* MergeLock going on to array.mu.RLock() whatever the argument is
MergeLockThenRLock(p) ==
    /\ pc[p] = "MergeLock"
    /\ StepLock(p, "MergeLock", "MergeRLock")

\* Merge: a.mu.Lock()
MergeLock(p) ==
    /\ pc[p] = "MergeLock"
    /\ StepLock(p, "MergeLock", IF Recv(p) # call[p].arg[1] THEN "MergeRLock" ELSE "MergeAppend")

\* Merge: array.mu.RLock() when the argument is another instance
MergeRLock(p) ==
    /\ pc[p] = "MergeRLock"
    /\ CanRLock(call[p].arg[1])
    /\ mu' = RLockMu(call[p].arg[1])
    /\ pc' = [pc EXCEPT ![p] = "MergeAppend"]
    /\ UNCHANGED <<array, unique, safe, last, call, memVars, reg, committed>>

\* Merge: a.array = append(a.array, array.array...)
MergeAppend(p) ==
    /\ pc[p] = "MergeAppend"
    /\ array' = [array EXCEPT ![Recv(p)] = @ \o array[call[p].arg[1]]]
    /\ pc' = [pc EXCEPT ![p] = "MergeSort"]
    /\ UNCHANGED <<unique, safe, mu, last, call, memVars, reg, committed>>

\* Merge: sort.Strings(a.array)
MergeSort(p) ==
    /\ pc[p] = "MergeSort"
    /\ array' = [array EXCEPT ![Recv(p)] = SortStrings(@)]
    /\ pc' = [pc EXCEPT ![p] = IF Recv(p) # call[p].arg[1] THEN "MergeRUnlock"
                                ELSE "MergeUnlock"]
    /\ UNCHANGED <<unique, safe, mu, last, call, memVars, reg, committed>>

\* Merge: the deferred array.mu.RUnlock(), the first of the deferred calls to run
MergeRUnlock(p) ==
    /\ pc[p] = "MergeRUnlock"
    /\ mu' = RUnlockMu(call[p].arg[1])
    /\ pc' = [pc EXCEPT ![p] = "MergeUnlock"]
    /\ UNCHANGED <<array, unique, safe, last, call, memVars, reg, committed>>

\* Merge: the deferred a.mu.Unlock()
MergeUnlock(p) ==
    /\ pc[p] = "MergeUnlock"
    /\ StepUnlock(p, "MergeUnlock")

(* Unique *)

\* Unique: a.mu.Lock()
UniqueLock(p) ==
    /\ pc[p] = "UniqueLock"
    /\ StepLock(p, "UniqueLock", "UniqueLoop")

\* Unique: one turn of the loop; the read of an index out of range panics,
\* and the goroutine unwinds with the lock held
UniqueTurn(p) ==
    /\ pc[p] = "UniqueLoop"
    /\ LET i   == Recv(p)
           arr == array[i]
           k   == reg[p].at
       IN  IF k = Len(arr) - 1
           THEN /\ pc' = [pc EXCEPT ![p] = "UniqueUnlock"]
                /\ UNCHANGED <<array, reg>>
           ELSE IF k + 1 >= Len(arr)
           THEN /\ pc' = [pc EXCEPT ![p] = "panicked"]
                /\ reg' = [reg EXCEPT ![p].status = "panic"]
                /\ UNCHANGED array
           ELSE IF compareFunc(arr[k + 1], arr[k + 2]) = 0
           THEN /\ array' = [array EXCEPT ![i] =
                                 SubSeq(arr, 1, k + 1) \o SubSeq(arr, k + 3, Len(arr))]
                /\ UNCHANGED <<pc, reg>>
           ELSE /\ reg' = [reg EXCEPT ![p].at = k + 1]
                /\ UNCHANGED <<array, pc>>
    /\ UNCHANGED <<unique, safe, mu, last, call, memVars, committed>>

\* Unique: a.mu.Unlock()
UniqueUnlock(p) ==
    /\ pc[p] = "UniqueUnlock"
    /\ StepUnlock(p, "UniqueUnlock")

(* SetArray *)

\* SetArray: a.mu.Lock()
SetArrayLock(p) ==
    /\ pc[p] = "SetArrayLock"
    /\ StepLock(p, "SetArrayLock", "SetArrayAssign")

\* SetArray: a.array = array
SetArrayAssign(p) ==
    /\ pc[p] = "SetArrayAssign"
    /\ array' = [array EXCEPT ![Recv(p)] = call[p].arg[1]]
    /\ pc' = [pc EXCEPT ![p] = "SetArraySort"]
    /\ UNCHANGED <<unique, safe, mu, last, call, memVars, reg, committed>>

\* SetArray: sort.Strings(a.array)
SetArraySort(p) ==
    /\ pc[p] = "SetArraySort"
    /\ array' = [array EXCEPT ![Recv(p)] = SortStrings(@)]
    /\ pc' = [pc EXCEPT ![p] = "SetArrayUnlock"]
    /\ UNCHANGED <<unique, safe, mu, last, call, memVars, reg, committed>>

\* SetArray: the deferred a.mu.Unlock()
SetArrayUnlock(p) ==
    /\ pc[p] = "SetArrayUnlock"
    /\ StepUnlock(p, "SetArrayUnlock")

(* Clear *)

\* Clear: a.mu.Lock()
ClearLock(p) ==
    /\ pc[p] = "ClearLock"
    /\ StepLock(p, "ClearLock", "ClearBody")

\* Clear: the new empty array
ClearBody(p) ==
    /\ pc[p] = "ClearBody"
    /\ array' = [array EXCEPT ![Recv(p)] = IF Len(@) > 0 THEN <<>> ELSE @]
    /\ pc' = [pc EXCEPT ![p] = "ClearUnlock"]
    /\ UNCHANGED <<unique, safe, mu, last, call, memVars, reg, committed>>

\* Clear: a.mu.Unlock()
ClearUnlock(p) ==
    /\ pc[p] = "ClearUnlock"
    /\ StepUnlock(p, "ClearUnlock")

(* Get, Len, Slice *)

\* GetRLock that goes on without the lock
GetRLockSkipped(p) ==
    /\ pc[p] = "GetRLock"
    /\ pc' = [pc EXCEPT ![p] = "GetRead"]
    /\ UNCHANGED <<array, unique, safe, mu, last, call, memVars, reg, committed>>

\* Get: a.mu.RLock()
GetRLock(p) ==
    /\ pc[p] = "GetRLock"
    /\ StepRLock(p, "GetRLock", "GetRead")

\* Get: value := a.array[index], a panic when index is out of range
GetRead(p) ==
    /\ pc[p] = "GetRead"
    /\ LET arr   == array[Recv(p)]
           index == call[p].arg[1]
       IN  reg' = IF index < 0 \/ index >= Len(arr)
                  THEN [reg EXCEPT ![p].status = "panic"]
                  ELSE [reg EXCEPT ![p].ret = <<arr[index + 1]>>]
    /\ pc' = [pc EXCEPT ![p] = "GetRUnlock"]
    /\ UNCHANGED <<array, unique, safe, mu, last, call, memVars, committed>>

\* Get: the deferred a.mu.RUnlock()
GetRUnlock(p) ==
    /\ pc[p] = "GetRUnlock"
    /\ StepRUnlock(p, "GetRUnlock")

\* Len: a.mu.RLock()
LenRLock(p) ==
    /\ pc[p] = "LenRLock"
    /\ StepRLock(p, "LenRLock", "LenRead")

\* Len: length := len(a.array)
LenRead(p) ==
    /\ pc[p] = "LenRead"
    /\ reg' = [reg EXCEPT ![p].ret = <<Len(array[Recv(p)])>>]
    /\ pc' = [pc EXCEPT ![p] = "LenRUnlock"]
    /\ UNCHANGED <<array, unique, safe, mu, last, call, memVars, committed>>

\* Len: a.mu.RUnlock()
LenRUnlock(p) ==
    /\ pc[p] = "LenRUnlock"
    /\ StepRUnlock(p, "LenRUnlock")

\* Slice: the test of a.mu.IsSafe(); in Unsafe mode a.array itself is returned
SliceEnter(p) ==
    /\ pc[p] = "Slice"
    /\ IF safe[Recv(p)]
       THEN /\ pc' = [pc EXCEPT ![p] = "SliceRLock"]
            /\ UNCHANGED reg
       ELSE /\ pc' = [pc EXCEPT ![p] = "done"]
            /\ reg' = [reg EXCEPT ![p].ret = <<array[Recv(p)]>>]
    /\ UNCHANGED <<array, unique, safe, mu, last, call, memVars, committed>>

\* Slice: a.mu.RLock()
SliceRLock(p) ==
    /\ pc[p] = "SliceRLock"
    /\ StepRLock(p, "SliceRLock", "SliceCopy")

\* Slice: the copy of a.array
SliceCopy(p) ==
    /\ pc[p] = "SliceCopy"
    /\ reg' = [reg EXCEPT ![p].ret = <<array[Recv(p)]>>]
    /\ pc' = [pc EXCEPT ![p] = "SliceRUnlock"]
    /\ UNCHANGED <<array, unique, safe, mu, last, call, memVars, committed>>

\* Slice: the deferred a.mu.RUnlock()
SliceRUnlock(p) ==
    /\ pc[p] = "SliceRUnlock"
    /\ StepRUnlock(p, "SliceRUnlock")

----------------------------------------------------------------------------
(* Concurrent Adds on one empty Safe instance *)

\* Add(v) on instance i
AddCall(i, v) == [op |-> "Add", inst |-> i, arg |-> <<<<v>>>>]

\* Every goroutine is about to add a value of its own to the empty instance 1
InitAdd ==
    /\ array = [i \in Inst |-> <<>>]
    /\ unique = [i \in Inst |-> FALSE]
    /\ safe = [i \in Inst |-> TRUE]
    /\ mu = [i \in Inst |-> [w |-> FALSE, r |-> 0]]
    /\ last = Call("New", 0, <<>>, <<>>, "ok")
    /\ \E f \in [Procs -> Val] :
           /\ \A p \in Procs, q \in Procs : f[p] = f[q] => p = q
           /\ call = [p \in Procs |-> AddCall(1, f[p])]
    /\ pc = [p \in Procs |-> "Add"]
    /\ reg = [p \in Procs |-> NoReg]
    /\ committed = array
    /\ NoMem

NextAdd ==
    \E p \in Procs :
        \/ AddEnter(p)
        \/ AddLock(p)
        \/ AddLoop(p)
        \/ AddHead(p)
        \/ AddRear(p)
        \/ AddUnlock(p)

SpecAdd == InitAdd /\ [][NextAdd]_vars

----------------------------------------------------------------------------
(* Concurrent readers and writers of one Safe instance *)

\* the goroutines that make a call
Workers == {1, 2}

\* the calls a goroutine makes on instance 1
Menu ==
    {AddCall(1, v) : v \in Val}
    \cup {[op |-> "Remove", inst |-> 1, arg |-> <<k>>] : k \in 0..(MaxLen - 1)}
    \cup {[op |-> "Merge", inst |-> 1, arg |-> <<j>>] : j \in Inst}
    \cup {[op |-> "Unique", inst |-> 1, arg |-> <<>>]}
    \cup {[op |-> "SetArray", inst |-> 1, arg |-> <<<<v, w>>>>] : v \in Val, w \in Val}
    \cup {[op |-> "Clear", inst |-> 1, arg |-> <<>>]}
    \cup {[op |-> "Get", inst |-> 1, arg |-> <<k>>] : k \in 0..(MaxLen - 1)}
    \cup {[op |-> "Len", inst |-> 1, arg |-> <<>>]}
    \cup {[op |-> "Slice", inst |-> 1, arg |-> <<>>]}

\* the first statement of a call
First(c) ==
    IF c.op \in {"Add", "Slice"} THEN c.op
    ELSE IF c.op \in {"Get", "Len"} THEN c.op \o "RLock"
    ELSE c.op \o "Lock"

\* Instance 1 is built from any input, instance 2 is empty or holds one
\* element; each worker is about to make one call
InitConc ==
    /\ array \in [Inst -> {NewSortedStringArrayFrom(s) : s \in SeqsUpTo(MaxArgs)}]
    /\ Len(array[2]) <= 1
    /\ unique = [i \in Inst |-> FALSE]
    /\ safe = [i \in Inst |-> TRUE]
    /\ mu = [i \in Inst |-> [w |-> FALSE, r |-> 0]]
    /\ last = Call("New", 0, <<>>, <<>>, "ok")
    /\ call \in [Procs -> Menu \cup {NoCall}]
    /\ \A p \in Procs : call[p] = NoCall <=> p \notin Workers
    /\ pc = [p \in Procs |-> IF p \in Workers THEN First(call[p]) ELSE "done"]
    /\ reg = [p \in Procs |-> NoReg]
    /\ committed = array
    /\ NoMem

NextConc ==
    \E p \in Procs :
        \/ AddEnter(p)
        \/ AddLock(p)
        \/ AddLoop(p)
        \/ AddHead(p)
        \/ AddRear(p)
        \/ AddUnlock(p)
        \/ RemoveLock(p)
        \/ RemoveShift(p)
        \/ RemoveSet(p)
        \/ RemoveUnlock(p)
        \/ MergeLock(p)
        \/ MergeRLock(p)
        \/ MergeAppend(p)
        \/ MergeSort(p)
        \/ MergeRUnlock(p)
        \/ MergeUnlock(p)
        \/ UniqueLock(p)
        \/ UniqueTurn(p)
        \/ UniqueUnlock(p)
        \/ SetArrayLock(p)
        \/ SetArrayAssign(p)
        \/ SetArraySort(p)
        \/ SetArrayUnlock(p)
        \/ ClearLock(p)
        \/ ClearBody(p)
        \/ ClearUnlock(p)
        \/ GetRLock(p)
        \/ GetRead(p)
        \/ GetRUnlock(p)
        \/ LenRLock(p)
        \/ LenRead(p)
        \/ LenRUnlock(p)
        \/ SliceEnter(p)
        \/ SliceRLock(p)
        \/ SliceCopy(p)
        \/ SliceRUnlock(p)

SpecConc == InitConc /\ [][NextConc]_vars

----------------------------------------------------------------------------
(* Concurrent Merges of two Safe instances, into each other or into themselves *)

\* Merge(j) on instance i
MergeCall(i, j) == [op |-> "Merge", inst |-> i, arg |-> <<j>>]

\* Instance 1 is built from any input, instance 2 is empty or holds one
\* element; each worker is about to make one Merge
InitCross ==
    /\ array \in [Inst -> {NewSortedStringArrayFrom(s) : s \in SeqsUpTo(MaxArgs)}]
    /\ Len(array[2]) <= 1
    /\ unique = [i \in Inst |-> FALSE]
    /\ safe = [i \in Inst |-> TRUE]
    /\ mu = [i \in Inst |-> [w |-> FALSE, r |-> 0]]
    /\ last = Call("New", 0, <<>>, <<>>, "ok")
    /\ call \in [Procs -> {MergeCall(i, j) : i \in Inst, j \in Inst} \cup {NoCall}]
    /\ \A p \in Procs : call[p] = NoCall <=> p \notin Workers
    /\ pc = [p \in Procs |-> IF p \in Workers THEN "MergeLock" ELSE "done"]
    /\ reg = [p \in Procs |-> NoReg]
    /\ committed = array
    /\ NoMem

\* the statements of Merge that goroutine p can make
MergeStep(p) ==
    \/ MergeLock(p)
    \/ MergeRLock(p)
    \/ MergeAppend(p)
    \/ MergeSort(p)
    \/ MergeRUnlock(p)
    \/ MergeUnlock(p)

NextCross ==
    \E p \in Procs :
        \/ MergeLock(p)
        \/ MergeRLock(p)
        \/ MergeAppend(p)
        \/ MergeSort(p)
        \/ MergeRUnlock(p)
        \/ MergeUnlock(p)

\* The scheduler lets every goroutine that stays able to take a step take it
SpecCross ==
    /\ InitCross
    /\ [][NextCross]_vars
    /\ \A p \in Workers : WF_vars(MergeStep(p))

----------------------------------------------------------------------------
(* Search and Contains beside mutating calls on one Safe instance *)

(* PopLeft, PopRight *)

\* PopLeft: a.mu.Lock()
PopLeftLock(p) ==
    /\ pc[p] = "PopLeftLock"
    /\ StepLock(p, "PopLeftLock", "PopLeftTake")

\* PopLeft: value := a.array[0]; a.array = a.array[1 : ]
PopLeftTake(p) ==
    /\ pc[p] = "PopLeftTake"
    /\ LET r == PopLeftBody(array[Recv(p)])
       IN  /\ array' = [array EXCEPT ![Recv(p)] = r.arr]
           /\ reg' = [reg EXCEPT ![p].ret = r.ret, ![p].status = r.status]
    /\ pc' = [pc EXCEPT ![p] = "PopLeftUnlock"]
    /\ UNCHANGED <<unique, safe, mu, last, call, memVars, committed>>

\* PopLeft: the deferred a.mu.Unlock()
PopLeftUnlock(p) ==
    /\ pc[p] = "PopLeftUnlock"
    /\ StepUnlock(p, "PopLeftUnlock")

\* PopRight: a.mu.Lock()
PopRightLock(p) ==
    /\ pc[p] = "PopRightLock"
    /\ StepLock(p, "PopRightLock", "PopRightTake")

\* PopRight: value := a.array[index]; a.array = a.array[: index]
PopRightTake(p) ==
    /\ pc[p] = "PopRightTake"
    /\ LET r == PopRightBody(array[Recv(p)])
       IN  /\ array' = [array EXCEPT ![Recv(p)] = r.arr]
           /\ reg' = [reg EXCEPT ![p].ret = r.ret, ![p].status = r.status]
    /\ pc' = [pc EXCEPT ![p] = "PopRightUnlock"]
    /\ UNCHANGED <<unique, safe, mu, last, call, memVars, committed>>

\* PopRight: the deferred a.mu.Unlock()
PopRightUnlock(p) ==
    /\ pc[p] = "PopRightUnlock"
    /\ StepUnlock(p, "PopRightUnlock")

(* Search, and Contains which calls it *)

\* binSearch: the test len(a.array) == 0, made before the lock is asked for;
\* it reads the length that the array has at this moment, held or not by a
\* writer
SearchEnter(p) ==
    /\ pc[p] = "Search"
    /\ IF Len(array[Recv(p)]) = 0
       THEN /\ reg' = [reg EXCEPT ![p].ret = <<-1, -2>>]
            /\ pc' = [pc EXCEPT ![p] = "done"]
       ELSE /\ reg' = reg
            /\ pc' = [pc EXCEPT ![p] = "SearchRLock"]
    /\ UNCHANGED <<array, unique, safe, mu, last, call, memVars, committed>>

\* binSearch: a.mu.RLock()
SearchRLock(p) ==
    /\ pc[p] = "SearchRLock"
    /\ StepRLock(p, "SearchRLock", "SearchLoop")

\* binSearch: min, max, mid, cmp := 0, len(a.array) - 1, 0, -2 and the loop
SearchLoop(p) ==
    /\ pc[p] = "SearchLoop"
    /\ LET arr == array[Recv(p)]
       IN  reg' = [reg EXCEPT ![p].ret =
                       binLoop(arr, call[p].arg[1], 0, Len(arr) - 1, 0, -2)]
    /\ pc' = [pc EXCEPT ![p] = "SearchRUnlock"]
    /\ UNCHANGED <<array, unique, safe, mu, last, call, memVars, committed>>

\* binSearch: the deferred a.mu.RUnlock()
SearchRUnlock(p) ==
    /\ pc[p] = "SearchRUnlock"
    /\ StepRUnlock(p, "SearchRUnlock")

\* Contains: r == 0 for the result r of its Search
ContainsRet(p) == reg[p].ret[2] = 0

\* the calls a goroutine makes on instance 1
MenuSearch ==
    {[op |-> o, inst |-> 1, arg |-> <<v>>] : o \in {"Search", "Contains"}, v \in Val}
    \cup {AddCall(1, v) : v \in Val}
    \cup {[op |-> "Remove", inst |-> 1, arg |-> <<k>>] : k \in 0..(MaxLen - 1)}
    \cup {[op |-> o, inst |-> 1, arg |-> <<>>] : o \in {"PopLeft", "PopRight", "Clear"}}

\* the first statement of a call
FirstSearch(c) ==
    IF c.op \in {"Search", "Contains"} THEN "Search"
    ELSE IF c.op = "Add" THEN "Add"
    ELSE c.op \o "Lock"

\* Instance 1 is Safe and built from any input; each worker is about to make
\* one call
InitSearch ==
    /\ array \in [Inst -> {NewSortedStringArrayFrom(s) : s \in SeqsUpTo(MaxArgs)}]
    /\ array[2] = <<>>
    /\ unique = [i \in Inst |-> FALSE]
    /\ safe = [i \in Inst |-> TRUE]
    /\ mu = [i \in Inst |-> [w |-> FALSE, r |-> 0]]
    /\ last = Call("New", 0, <<>>, <<>>, "ok")
    /\ call \in [Procs -> MenuSearch \cup {NoCall}]
    /\ \A p \in Procs : call[p] = NoCall <=> p \notin Workers
    /\ pc = [p \in Procs |-> IF p \in Workers THEN FirstSearch(call[p]) ELSE "done"]
    /\ reg = [p \in Procs |-> NoReg]
    /\ committed = array
    /\ NoMem

NextSearch ==
    \E p \in Procs :
        \/ SearchEnter(p)
        \/ SearchRLock(p)
        \/ SearchLoop(p)
        \/ SearchRUnlock(p)
        \/ AddEnter(p)
        \/ AddLock(p)
        \/ AddLoop(p)
        \/ AddHead(p)
        \/ AddRear(p)
        \/ AddUnlock(p)
        \/ RemoveLock(p)
        \/ RemoveShift(p)
        \/ RemoveSet(p)
        \/ RemoveUnlock(p)
        \/ PopLeftLock(p)
        \/ PopLeftTake(p)
        \/ PopLeftUnlock(p)
        \/ PopRightLock(p)
        \/ PopRightTake(p)
        \/ PopRightUnlock(p)
        \/ ClearLock(p)
        \/ ClearBody(p)
        \/ ClearUnlock(p)

SpecSearch == InitSearch /\ [][NextSearch]_vars

----------------------------------------------------------------------------
(* Properties *)

\* the elements of a sequence
Elems(s) == {s[k] : k \in 1..Len(s)}
\* the number of occurrences of v in s
Count(s, v) == Cardinality({k \in 1..Len(s) : s[k] = v})
\* s with the element at 0-based index k deleted
DeleteAt(s, k) == SubSeq(s, 1, k) \o SubSeq(s, k + 2, Len(s))
\* I1: every adjacent pair is in order
I1(s) == \A k \in 1..(Len(s) - 1) : compareFunc(s[k], s[k + 1]) <= 0
\* I2: no adjacent pair compares equal
I2(s) == \A k \in 1..(Len(s) - 1) : compareFunc(s[k], s[k + 1]) # 0

\* C1: after construction and after every call of SetArray, Sort, Add, Remove,
\* PopLeft, PopRight, Unique, SetUnique, Clear and Merge, every adjacent pair
\* of elements of every instance is in order (I1).
C1_Sorted == \A i \in Inst : I1(array[i])

\* An Add has built an array of three elements, not all equal.
C1_Witness ==
    /\ last.op = "Add"
    /\ Len(array[1]) = 3
    /\ array[1][1] # array[1][3]

\* C2: whenever the unique flag of an instance is true, no two adjacent
\* elements of it compare equal (I2), in every state the operations reach.
C2_UniqueNoDuplicates == \A i \in Inst : unique[i] => I2(array[i])

\* C3: an Add on an instance whose unique flag is true and whose adjacent
\* elements all differ leaves adjacent elements that all differ; the array
\* grows by one element for each distinct value of the call that was absent,
\* and keeps every other count, so a call of present values changes nothing.
C3_UniqueAdd ==
    [][\A i \in Inst :
          (last'.op = "Add" /\ last'.inst = i /\ unique[i]) =>
              LET values == last'.arg[1]
                  absent == Elems(values) \ Elems(array[i])
              IN  /\ I2(array[i]) => I2(array'[i])
                  /\ Len(array'[i]) = Len(array[i]) + Cardinality(absent)
                  /\ \A v \in Val :
                         Count(array'[i], v) =
                             Count(array[i], v) + (IF v \in absent THEN 1 ELSE 0)
                  /\ absent = {} => array'[i] = array[i]]_vars

\* An Add of the same value twice in one call has acted on a unique instance
\* that now holds two elements.
C3_Witness ==
    /\ last.op = "Add"
    /\ unique[1]
    /\ Len(last.arg[1]) = 2
    /\ last.arg[1][1] = last.arg[1][2]
    /\ Len(array[1]) = 2
    /\ I2(array[1])

\* C4: on a sorted array, Search of a present value returns an index holding
\* it and comparison 0; Search of an absent value in a non-empty array returns
\* a nonzero comparison and an index within the array; Search in an empty
\* array returns (-1, -2); Contains is true exactly for the present values.
C4_Search ==
    LET S == array[last.inst]
        v == last.arg[1]
    IN  /\ last.op = "Search" =>
               LET index  == last.ret[1]
                   result == last.ret[2]
               IN  /\ v \in Elems(S) =>
                          result = 0 /\ index \in 0..(Len(S) - 1) /\ S[index + 1] = v
                   /\ (v \notin Elems(S) /\ Len(S) > 0) =>
                          result # 0 /\ index \in 0..(Len(S) - 1)
                   /\ Len(S) = 0 => index = -1 /\ result = -2
        /\ last.op = "Contains" => (last.ret[1] <=> v \in Elems(S))

\* A Search has found a value at the last index of a three-element array.
C4_Witness ==
    /\ last.op = "Search"
    /\ Len(array[1]) = 3
    /\ last.ret = <<2, 0>>

\* C5: Remove with a valid index returns the element at the index and leaves
\* the array with that position deleted, one element shorter and in order;
\* PopLeft and PopRight on a non-empty array do so for the first and the last
\* index.
C5_Remove ==
    [][\A i \in Inst :
          LET S == array[i]
              removed(k) == /\ last'.status = "ok"
                            /\ last'.ret = <<S[k + 1]>>
                            /\ Len(array'[i]) = Len(S) - 1
                            /\ array'[i] = DeleteAt(S, k)
                            /\ I1(array'[i])
          IN  /\ (last'.op = "Remove" /\ last'.inst = i
                      /\ last'.arg[1] \in 0..(Len(S) - 1)) => removed(last'.arg[1])
              /\ (last'.op = "PopLeft" /\ last'.inst = i /\ Len(S) > 0) => removed(0)
              /\ (last'.op = "PopRight" /\ last'.inst = i /\ Len(S) > 0) =>
                     removed(Len(S) - 1)]_vars

\* A Remove at index 1 of a three-element array has returned.
C5_Witness ==
    /\ last.op = "Remove"
    /\ last.status = "ok"
    /\ last.arg = <<1>>
    /\ Len(array[1]) = 2

\* C6: Merge of a non-unique instance j into another non-unique instance i
\* leaves in i the elements of both, each as often as in i and j together,
\* in order, and leaves the elements of j unchanged.
C6_Merge ==
    [][\A i \in Inst, j \in Inst :
          (last'.op = "Merge" /\ last'.inst = i /\ last'.arg = <<j>> /\ i # j
               /\ ~unique[i] /\ ~unique[j]) =>
              /\ Len(array'[i]) = Len(array[i]) + Len(array[j])
              /\ \A v \in Val :
                     Count(array'[i], v) = Count(array[i], v) + Count(array[j], v)
              /\ I1(array'[i])
              /\ array'[j] = array[j]]_vars

\* A Merge of a one-element instance 2 into instance 1 has put that element
\* between two others.
C6_Witness ==
    /\ last.op = "Merge"
    /\ last.inst = 1
    /\ last.arg = <<2>>
    /\ Len(array[2]) = 1
    /\ Len(array[1]) = 3
    /\ array[1][2] = array[2][1]
    /\ array[1][1] # array[1][2]
    /\ array[1][3] # array[1][2]

\* the statements of a call made while it holds the exclusive lock of its
\* receiver
WriteLabels ==
    {"AddLoop", "AddHead", "AddRear", "AddUnlock",
     "RemoveBody", "RemoveSet", "RemoveUnlock",
     "MergeRLock", "MergeAppend", "MergeSort", "MergeRUnlock", "MergeUnlock",
     "UniqueLoop", "UniqueUnlock",
     "SetArrayAssign", "SetArraySort", "SetArrayUnlock",
     "ClearBody", "ClearUnlock"}
\* the statements of a call made while it holds the shared lock of its receiver
ReadLabels ==
    {"GetRead", "GetRUnlock", "LenRead", "LenRUnlock", "SliceCopy", "SliceRUnlock"}
\* the statements of Merge made while it holds the shared lock of its argument
MergeReadLabels == {"MergeAppend", "MergeSort", "MergeRUnlock"}

\* the goroutines inside a critical section that writes instance i
Writers(i) == {p \in Procs : call[p].inst = i /\ pc[p] \in WriteLabels}
\* the goroutines inside a critical section that reads instance i
Readers(i) ==
    {p \in Procs : call[p].inst = i /\ pc[p] \in ReadLabels}
    \cup {p \in Procs : /\ call[p].op = "Merge"
                        /\ call[p].inst # i
                        /\ call[p].arg[1] = i
                        /\ pc[p] \in MergeReadLabels}

\* C7: Add calls of distinct values made concurrently on one empty,
\* non-unique Safe instance all return: none panics, some step can be taken
\* as long as one has not returned, and once all have returned the array holds
\* each of the values once, as many elements as there were calls, in order.
C7_ConcurrentAdd ==
    /\ \A p \in Procs : pc[p] # "panicked"
    /\ (\E p \in Procs : pc[p] # "done") => ENABLED NextAdd
    /\ (\A p \in Procs : pc[p] = "done") =>
           /\ Len(array[1]) = Cardinality(Procs)
           /\ \A p \in Procs : Count(array[1], call[p].arg[1][1]) = 1
           /\ I1(array[1])

\* Three concurrent Adds have all returned and left three elements.
C7_Witness ==
    /\ \A p \in Procs : pc[p] = "done" /\ call[p].op = "Add"
    /\ Len(array[1]) = 3
    /\ mu[1] = [w |-> FALSE, r |-> 0]

\* C8: on a Safe instance at most one goroutine is inside a writing critical
\* section, and none is inside a reading one meanwhile; while a goroutine is
\* inside a reading critical section the array is as the last complete
\* mutating call left it, and what Get, Len and Slice have read is taken from
\* that array.
C8_NoTornRead ==
    \A i \in Inst :
        safe[i] =>
            /\ Cardinality(Writers(i)) <= 1
            /\ Writers(i) # {} => Readers(i) = {}
            /\ Readers(i) # {} => array[i] = committed[i]
            /\ \A p \in Procs :
                   call[p].inst = i =>
                       /\ (pc[p] = "GetRUnlock" /\ reg[p].status = "ok") =>
                              /\ call[p].arg[1] < Len(committed[i])
                              /\ reg[p].ret = <<committed[i][call[p].arg[1] + 1]>>
                       /\ pc[p] = "LenRUnlock" => reg[p].ret = <<Len(committed[i])>>
                       /\ pc[p] = "SliceRUnlock" => reg[p].ret = <<committed[i]>>

\* A Len waits for the shared lock while a Merge has appended and not yet
\* sorted, the array being out of order.
C8_Witness ==
    \E p \in Procs, q \in Procs :
        /\ pc[p] = "LenRLock"
        /\ pc[q] = "MergeSort"
        /\ ~I1(array[1])
        /\ array[1] # committed[1]

\* C9: SetUnique(true) called while the flag is false returns normally with
\* the flag true and no two adjacent elements equal, on the empty array too;
\* SetUnique(false) called while the flag is true returns normally with the
\* flag false and the elements unchanged.
C9_SetUnique ==
    [][\A i \in Inst :
          (last'.op = "SetUnique" /\ last'.inst = i) =>
              /\ (last'.arg[1] /\ ~unique[i] /\ I1(array[i])) =>
                     last'.status = "ok" /\ unique'[i] /\ I2(array'[i])
              /\ (~last'.arg[1] /\ unique[i]) =>
                     last'.status = "ok" /\ ~unique'[i] /\ array'[i] = array[i]]_vars

\* C10: SubSlice(offset, size) with offset >= 0 and size >= 0 returns the
\* elements from offset up to, and not including, the smaller of offset + size
\* and the length, in Safe and in Unsafe mode, and nothing when offset exceeds
\* the length.
C10_SubSlice ==
    last.op = "SubSlice" =>
        LET S      == array[last.inst]
            offset == last.arg[1]
            size   == last.arg[2]
            end    == IF offset + size < Len(S) THEN offset + size ELSE Len(S)
        IN  /\ last.ret = SubSeq(S, offset + 1, end)
            /\ Len(last.ret) <= size

\* the concatenation of the groups gs from group k on
RECURSIVE Concat(_, _)
Concat(gs, k) == IF k > Len(gs) THEN <<>> ELSE gs[k] \o Concat(gs, k + 1)

\* C11: Rand(size) with size >= 0 returns normally, on every array and for
\* every permutation, the smaller of size and the length many elements, which
\* are the elements at pairwise distinct indices; the array is left unchanged.
C11_Rand ==
    [][\A i \in Inst :
          (last'.op = "Rand" /\ last'.inst = i /\ last'.arg[1] >= 0) =>
              LET S    == array[i]
                  size == last'.arg[1]
                  m    == IF size < Len(S) THEN size ELSE Len(S)
              IN  /\ last'.status = "ok"
                  /\ Len(last'.ret) = m
                  /\ \E f \in [1..m -> 1..Len(S)] :
                         /\ \A j \in 1..m, k \in 1..m : f[j] = f[k] => j = k
                         /\ \A k \in 1..m : last'.ret[k] = S[f[k]]
                  /\ array'[i] = S]_vars

\* C12: Chunk(size) with size >= 1 returns groups whose concatenation is the
\* array, each but the last of size elements and the last of 1 to size
\* elements, and no group for the empty array; with size < 1 it panics and
\* leaves the array unchanged.
C12_Chunk ==
    [][\A i \in Inst :
          (last'.op = "Chunk" /\ last'.inst = i) =>
              LET S    == array[i]
                  size == last'.arg[1]
                  gs   == last'.ret
              IN  /\ size >= 1 =>
                         /\ last'.status = "ok"
                         /\ Concat(gs, 1) = S
                         /\ \A k \in 1..(Len(gs) - 1) : Len(gs[k]) = size
                         /\ Len(gs) > 0 => Len(gs[Len(gs)]) \in 1..size
                         /\ S = <<>> => gs = <<>>
                  /\ size < 1 => last'.status = "panic"
                  /\ array'[i] = S]_vars

\* A Chunk(2) of a three-element array has returned two groups, the last of
\* one element.
C12_Witness ==
    /\ last.op = "Chunk"
    /\ last.arg = <<2>>
    /\ Len(array[1]) = 3
    /\ Len(last.ret) = 2
    /\ Len(last.ret[2]) = 1

\* the calls that change the array of their receiver
Mutators == {"Add", "Remove", "Sort", "Unique", "SetUnique", "Merge", "Clear"}
\* the elements of the slices returned to the caller
ViewCells(hp, vs) == [k \in 1..Len(vs.hs) |-> Cells(hp, vs.hs[k])]

\* C13 as claimed: the instance Clone returns has the mode opposite to the
\* source's, a Safe source giving an Unsafe clone and an Unsafe source a Safe
\* one.
C13_CloneInvertsMode ==
    last.op = "Clone" => (safe[last.arg[1]] <=> ~safe[last.inst])

\* C13 as amended: the instance Clone returns has the mode of the source, a
\* Safe source giving a Safe clone and an Unsafe source an Unsafe one.
C13_CloneKeepsMode ==
    [][last'.op = "Clone" => (safe'[last'.arg[1]] <=> safe[last'.inst])]_vars

\* A Clone of a Safe two-element instance has returned a Safe instance in
\* the place of an Unsafe one.
C13_Witness ==
    /\ last.op = "Clone"
    /\ last.inst = 1
    /\ safe[1]
    /\ safe[2]
    /\ calls = 1
    /\ Len(array[2]) = 2

\* C16: in Safe mode a write of the caller to the slice Slice or SubSlice
\* returned leaves the arrays unchanged, and Add, Remove, Sort, Unique, Merge
\* and Clear leave the elements of that slice unchanged; in Unsafe mode the
\* slice Slice returns is a.array itself, on the same backing array.
C16_SliceCopy ==
    [][/\ (views.op \in {"Slice", "SubSlice"} /\ safe[views.inst]) =>
              /\ last'.op = "Write" => array' = array
              /\ last'.op \in Mutators =>
                     ViewCells(heap', views) = ViewCells(heap, views)
       /\ (last'.op = "Slice" /\ ~safe[last'.inst]) =>
              /\ views'.hs[1] = hdr'[last'.inst]
              /\ Cells(heap', views'.hs[1]) = array'[last'.inst]]_vars

\* The caller has written to the slice a Safe instance of two elements
\* returned from Slice, and the slice now differs from the array.
C16_Witness ==
    /\ views.op = "Slice"
    /\ safe[views.inst]
    /\ last.op = "Write"
    /\ Len(array[1]) = 2
    /\ Cells(heap, views.hs[1]) # array[1]

\* C19: in Safe mode Add, Remove, Sort, Unique, Merge and Clear leave the
\* elements of the groups that Chunk returned unchanged.
C19_ChunkIndependent ==
    [][(views.op = "Chunk" /\ safe[views.inst] /\ last'.op \in Mutators) =>
           ViewCells(heap', views) = ViewCells(heap, views)]_vars

\* C20: Clone returns an instance whose unique flag is false and whose
\* elements are those of the source, as often and, the source being in order,
\* in the same order, and leaves the source unchanged; every call that changes
\* the array of one instance leaves the array of the other unchanged.
C20_Clone ==
    [][/\ last'.op = "Clone" =>
              LET i == last'.inst
                  j == last'.arg[1]
              IN  /\ ~unique'[j]
                  /\ unique'[i] = unique[i]
                  /\ \A v \in Val : Count(array'[j], v) = Count(array[i], v)
                  /\ I1(array[i]) => array'[j] = array[i]
                  /\ array'[i] = array[i]
       /\ \A i \in Inst, k \in Inst :
              (last'.op \in Mutators /\ last'.inst = i /\ k # i) =>
                  array'[k] = array[k]]_vars

\* Clone has returned, for a unique Unsafe instance of two elements, an
\* instance that is not unique and holds the same elements in a backing array
\* of its own.
C20_Witness ==
    /\ last.op = "Clone"
    /\ last.inst = 1
    /\ unique[1]
    /\ ~unique[2]
    /\ ~safe[1]
    /\ Len(array[1]) = 2
    /\ array[2] = array[1]
    /\ hdr[2].base # hdr[1].base

\* goroutine p merges instance i into itself
SelfMerge(p, i) == call[p] = MergeCall(i, i)

\* C14: when Merge(2) on instance 1 and Merge(1) on instance 2, both Safe,
\* are called concurrently, both calls return under fair scheduling.
C14_CrossMergeReturns ==
    (call[1] = MergeCall(1, 2) /\ call[2] = MergeCall(2, 1))
        ~> (\A p \in Workers : pc[p] = "done")

\* goroutine p waits for a lock that another goroutine holds
Waits(p) ==
    \/ pc[p] = "MergeLock" /\ ~CanLock(call[p].inst)
    \/ pc[p] = "MergeRLock" /\ ~CanRLock(call[p].arg[1])

\* C15: a Merge of a Safe instance into itself takes the exclusive lock of
\* the instance and never its shared lock; until it has returned some
\* goroutine is inside a call and waits for no lock, and once it holds the
\* lock it waits for none itself; before it releases the lock the array
\* holds every element twice as often as when the lock was taken, twice as
\* many in all, in order; once it has returned the lock is held only by a
\* goroutine inside a call of its own.
C15_SelfMerge ==
    \A p \in Workers, i \in Inst :
        SelfMerge(p, i) =>
            /\ pc[p] \notin {"MergeRLock", "MergeRUnlock", "panicked"}
            /\ pc[p] # "done" => \E q \in Workers : pc[q] # "done" /\ ~Waits(q)
            /\ pc[p] \in {"MergeAppend", "MergeSort", "MergeUnlock"} =>
                   /\ mu[i] = [w |-> TRUE, r |-> 0]
                   /\ ~Waits(p)
            /\ pc[p] = "MergeUnlock" =>
                   /\ Len(array[i]) = 2 * Len(committed[i])
                   /\ \A v \in Val : Count(array[i], v) = 2 * Count(committed[i], v)
                   /\ I1(array[i])
            /\ pc[p] = "done" =>
                   /\ mu[i].w => Writers(i) # {}
                   /\ mu[i].r > 0 => Readers(i) # {}

\* A Merge of instance 1 into itself has returned and left four elements,
\* the lock free, before the other goroutine has started.
C15_Witness ==
    \E p \in Workers, q \in Workers :
        /\ SelfMerge(p, 1)
        /\ pc[p] = "done"
        /\ pc[q] = "MergeLock"
        /\ Len(array[1]) = 4
        /\ mu[1] = [w |-> FALSE, r |-> 0]

\* C17: Unique() called on an array in order, the empty array and a single
\* element included, returns normally and leaves the lock of the instance
\* free, the array in order and holding exactly one element for each value
\* that it held before.
C17_Unique ==
    [][\A i \in Inst :
          (last'.op = "Unique" /\ last'.inst = i /\ I1(array[i])) =>
              /\ last'.status = "ok"
              /\ mu'[i] = [w |-> FALSE, r |-> 0]
              /\ I1(array'[i])
              /\ \A v \in Val :
                     Count(array'[i], v) = IF Count(array[i], v) > 0 THEN 1 ELSE 0]_vars

\* C18: a Search or Contains on a Safe instance, made beside Add, Remove,
\* PopLeft, PopRight and Clear calls, has read the array only under the
\* shared lock: a result of -2 comes only with index -1, and what the call
\* is about to return while it still holds the shared lock is what binSearch
\* yields on the array as the last complete mutating call left it, so any
\* other result is -1, 0 or 1 at an index inside that array, and Contains
\* tells whether that array holds the value.
C18_SearchLinearizable ==
    \A p \in Workers :
        LET i     == call[p].inst
            value == call[p].arg[1]
            ret   == reg[p].ret
        IN  /\ (call[p].op = "Search" /\ pc[p] \in {"SearchRUnlock", "done"}) =>
                   (ret[2] = -2 => ret[1] = -1)
            /\ (call[p].op = "Search" /\ pc[p] = "SearchRUnlock") =>
                   /\ ret = binSearch(committed[i], value)
                   /\ ret[2] # -2 =>
                          /\ 0 <= ret[1] /\ ret[1] < Len(committed[i])
                          /\ ret[2] \in {-1, 0, 1}
            /\ (call[p].op = "Contains" /\ pc[p] = "SearchRUnlock") =>
                   (ContainsRet(p) <=> Count(committed[i], value) > 0)

====
